---- MODULE Spec2Model ----
(***************************************************************************)
(* EnvironmentalAudioEngine (src/audio-engine.js, lines 1-675): the voice  *)
(* bank, the per-voice pulse scheduler (setTimeout chains), the frequency  *)
(* mapper and the start/stop lifecycle, as a state machine.                *)
(*                                                                         *)
(* Numbers are fixed point:                                                *)
(*   frequencies            Hz (floored)                                   *)
(*   ratios, Math.random()  thousandths (1000 = 1.0)                       *)
(*   gains                  1e-7 (GainOne = 1.0)                           *)
(*   angles, heading        tenths of a degree                             *)
(*   speed                  tenths of m/s,  timeOfDay, density: thousandths*)
(* NaN and Undef stand for the JavaScript values NaN and undefined.        *)
(***************************************************************************)
EXTENDS Integers, Sequences, FiniteSets, TLC

NumVoices == 8
Voices == 0 .. (NumVoices - 1)

\* ------------------------------------------------------------------------
\* JavaScript numbers
\* ------------------------------------------------------------------------
\* NaN and undefined, as two values no computation of the model yields
NaN == 0 - 999999999
Undef == 0 - 999999998

IsNum(x) == x # NaN /\ x # Undef

Add(a, b) == IF IsNum(a) /\ IsNum(b) THEN a + b ELSE NaN
Sub(a, b) == IF IsNum(a) /\ IsNum(b) THEN a - b ELSE NaN

\* a * (m / 1000), floored, without leaving 32 bits
MulMilli(a, m) ==
    IF IsNum(a) /\ IsNum(m)
    THEN (a \div 1000) * m + ((a % 1000) * m) \div 1000
    ELSE NaN

\* a / (m / 1000), floored
DivMilli(a, m) ==
    IF IsNum(a) /\ IsNum(m) /\ m # 0
    THEN (a \div m) * 1000 + ((a % m) * 1000) \div m
    ELSE NaN

\* comparisons with NaN are false
Gt(a, b) == IsNum(a) /\ IsNum(b) /\ a > b
Lt(a, b) == IsNum(a) /\ IsNum(b) /\ a < b

MathMin(a, b) == IF IsNum(a) /\ IsNum(b) THEN (IF a < b THEN a ELSE b) ELSE NaN
MathMax(a, b) == IF IsNum(a) /\ IsNum(b) THEN (IF a > b THEN a ELSE b) ELSE NaN
MathAbs(a) == IF IsNum(a) THEN (IF a < 0 THEN -a ELSE a) ELSE NaN

\* the % operator of JavaScript: the result has the sign of the dividend
JsRem(a, n) == IF ~IsNum(a) THEN NaN ELSE IF a >= 0 THEN a % n ELSE -((-a) % n)

\* array[idx] of a JavaScript array held as a sequence: undefined off the ends
At(arr, idx) == IF IsNum(idx) /\ idx >= 0 /\ idx < Len(arr) THEN arr[idx + 1] ELSE Undef

\* Math.pow(2, e / 1000) in thousandths: exact at multiples of 1/8, linear between
Pow2Eighths == <<1000, 1091, 1189, 1297, 1414, 1542, 1682, 1834, 2000>>

RECURSIVE Shift2(_, _)
Shift2(v, k) == IF k = 0 THEN v ELSE IF k > 0 THEN Shift2(2 * v, k - 1) ELSE Shift2(v \div 2, k + 1)

Pow2(e) ==
    IF ~IsNum(e) THEN NaN
    ELSE LET k == e \div 1000
             f == e % 1000
             j == f \div 125
             lo == Pow2Eighths[j + 1]
             hi == Pow2Eighths[j + 2]
         IN Shift2(lo + ((hi - lo) * (f - 125 * j)) \div 125, k)

\* Math.sin of an angle in tenths of a degree, in thousandths: exact every 15
\* degrees, linear between
SinFifteens == <<0, 259, 500, 707, 866, 966, 1000>>

SinQuadrant(a) ==
    LET j == a \div 150
        lo == SinFifteens[j + 1]
        hi == IF j = 6 THEN 1000 ELSE SinFifteens[j + 2]
    IN lo + ((hi - lo) * (a - 150 * j)) \div 150

Sin(a) ==
    IF ~IsNum(a) THEN NaN
    ELSE LET r == a % 3600
         IN IF r <= 900 THEN SinQuadrant(r)
            ELSE IF r <= 1800 THEN SinQuadrant(1800 - r)
            ELSE IF r <= 2700 THEN -SinQuadrant(r - 1800)
            ELSE -SinQuadrant(3600 - r)

Cos(a) == IF IsNum(a) THEN Sin(a + 900) ELSE NaN

\* Math.asin of x thousandths, in tenths of a degree: the inverse of Sin on
\* -90..90 degrees, linear between the same points
AsinQuadrant(m) ==
    LET j == CHOOSE k \in 0 .. 5 : SinFifteens[k + 1] <= m /\ (k = 5 \/ m < SinFifteens[k + 2])
        lo == SinFifteens[j + 1]
        hi == SinFifteens[j + 2]
    IN 150 * j + ((m - lo) * 150) \div (hi - lo)

Asin(x) ==
    IF ~IsNum(x) \/ x > 1000 \/ x < -1000 THEN NaN
    ELSE IF x < 0 THEN -AsinQuadrant(-x) ELSE AsinQuadrant(x)

\* ------------------------------------------------------------------------
\* Frequency mapper: the pure part of updateFrequencies
\* ------------------------------------------------------------------------
Modes == {"drone", "pulse", "click"}
Scales == {"dreyblatt", "harmonic", "slendro", "pelog", "quartertone"}

\* base.map(r => r * k)
Scaled(base, k) == [j \in 1..Len(base) |-> base[j] * k]

slendroBase == <<1000, 1200, 1400, 1680, 1870>>
pelogBase == <<1000, 1122, 1260, 1414, 1587, 1682, 1888>>

\* scaleRatios of getScaleTones, in thousandths
ScaleRatios(sc) ==
    CASE sc = "dreyblatt" ->
           <<1000, 1125, 1250, 1375, 1500, 1625, 1750, 1875, 2000, 2125,
             2250, 2375, 2500, 2625, 2750, 2875, 3000, 3125, 3250, 3375>>
      [] sc = "harmonic" ->
           <<1000, 2000, 3000, 4000, 5000, 6000, 7000, 8000, 9000, 10000,
             11000, 12000, 13000, 14000, 15000, 16000, 17000, 18000, 19000, 20000>>
      [] sc = "slendro" ->
           slendroBase \o Scaled(slendroBase, 2) \o Scaled(slendroBase, 3) \o Scaled(slendroBase, 4)
      [] sc = "pelog" ->
           pelogBase \o Scaled(pelogBase, 2) \o Scaled(pelogBase, 3)
      [] sc = "quartertone" ->
           <<1000, 1029, 1059, 1091, 1122, 1155, 1189, 1224, 1260, 1297, 1335, 1374,
             1414, 1456, 1498, 1542, 1587, 1634, 1682, 1731, 1782, 1834, 1888, 1943>>
      [] OTHER ->
           <<1000, 1125, 1250, 1500, 1750, 2000>>

\* Math.floor(base + t * m) for t = num / 900
FloorStep(base, num, m) == IF IsNum(num) THEN base + (num * m) \div 900 ELSE NaN

\* scaleRatios[Math.min(idx, scaleRatios.length - 1)]
\* scaleRatios[idx], read without a bound on the index
PickUnclamped(r, idx) == At(r, idx)

Pick(r, idx) == At(r, MathMin(idx, Len(r) - 1))

\* the four quadrant branches of getScaleTones
SelectNorth(r, startIdx) ==
    <<At(r, startIdx), Pick(r, startIdx + 2), Pick(r, startIdx + 4),
      Pick(r, startIdx + 6), Pick(r, startIdx + 8), Pick(r, startIdx + 10)>>

\* the east branch with every index one step further along the sequence
SelectEastShifted(r, startIdx) ==
    <<Pick(r, startIdx + 1), Pick(r, startIdx + 3), Pick(r, startIdx + 5),
      Pick(r, startIdx + 7), Pick(r, startIdx + 9), Pick(r, startIdx + 11)>>

SelectEast(r, startIdx) ==
    <<Pick(r, startIdx), Pick(r, startIdx + 1), Pick(r, startIdx + 3),
      Pick(r, startIdx + 5), Pick(r, startIdx + 7), Pick(r, startIdx + 9)>>

SelectSouth(r, startIdx) ==
    <<Pick(r, startIdx), Pick(r, startIdx + 2), Pick(r, startIdx + 4),
      Pick(r, startIdx + 6), Pick(r, startIdx + 8), At(r, Len(r) - 1)>>

SelectWest(r, spread) ==
    <<Pick(r, Add(0, spread)), Pick(r, Add(4, spread)), Pick(r, Add(8, spread)),
      Pick(r, Add(12, spread)), Pick(r, Add(16, spread)), At(r, Len(r) - 1)>>

SelectTones(r, headingNorm) ==
    IF Lt(headingNorm, 900) THEN
        SelectNorth(r, FloorStep(0, headingNorm, MathMin(4, Len(r) - 10)))
    ELSE IF Lt(headingNorm, 1800) THEN
        SelectEast(r, FloorStep(5, headingNorm - 900, MathMin(5, Len(r) - 15)))
    ELSE IF Lt(headingNorm, 2700) THEN
        SelectSouth(r, FloorStep(10, headingNorm - 1800, MathMin(6, Len(r) - 16)))
    ELSE
        SelectWest(r, FloorStep(0, Sub(headingNorm, 2700), 3))

\* getScaleTones(): the 6 selected ratios for this.scale and this.heading
GetScaleTones(sc, hdg) == SelectTones(ScaleRatios(sc), JsRem(hdg, 3600))

\* calculateSunElevation(), in tenths of a degree (declination 0)
CalculateSunElevation(lat, tod) ==
    MathMax(-900, MathMin(900,
        Asin(MulMilli(Cos(lat), Cos(MulMilli(Sub(tod, 500), 3600))))))

\* a frequency handed on as it is
ClampNone(f) == f

\* the clamp of setOscillatorFrequency
ClampFreq(f) == MathMax(20, MathMin(20000, f))

\* the random multiplier of the fundamental, by mode (rnd = Math.random())
ModeMultiplier(m, rnd) ==
    IF m = "pulse" THEN 500 + MulMilli(2500, rnd)
    ELSE IF m = "click" THEN 250 + 8 * rnd
    ELSE 750 + rnd \div 2

\* the octave shift of a harmonic voice, by mode
OctaveShift(m, oscIdx) ==
    IF m = "pulse" THEN (IF oscIdx <= 2 THEN 250 ELSE IF oscIdx >= 5 THEN 4000 ELSE 1000)
    ELSE IF m = "click" THEN (IF oscIdx <= 2 THEN 125 ELSE IF oscIdx >= 5 THEN 8000 ELSE 1000)
    ELSE IF oscIdx = 6 \/ oscIdx = 7 THEN 8000
    ELSE IF oscIdx = 5 THEN 4000
    ELSE 1000

harmonicIndices == <<1, 2, 4, 5, 6, 7>>

\* tempReference * latOctave * timeModulation * densityShift
BaseFreq(e) ==
    MulMilli(MulMilli(MulMilli(
        Add(100, IF IsNum(e.temperature) THEN ((e.temperature + 20) * 700) \div 60 ELSE NaN),
        Pow2(IF IsNum(e.latitude) THEN (MathAbs(e.latitude) * 1000) \div 900 ELSE NaN)),
        Pow2(IF IsNum(e.timeOfDay)
             THEN Sin(MulMilli(Sub(e.timeOfDay, 500), 3600)) \div 2 ELSE NaN)),
        Pow2(IF IsNum(e.populationDensity) THEN e.populationDensity \div 2 ELSE NaN))

\* fundamentalFreq: the base times the random multiplier of the mode
Fundamental(m, e, rnd) == MulMilli(BaseFreq(e), ModeMultiplier(m, rnd))

\* randomDrift = (Math.random() - 0.5) * Math.abs((temperature - 20) * 0.5)
DriftOf(tempDrift, rnd) == IF IsNum(tempDrift) THEN ((rnd - 500) * tempDrift) \div 2000 ELSE NaN
RandomDrift(e, rnd) == DriftOf(MathAbs(Sub(e.temperature, 20)), rnd)

\* elevationFactor, in thousandths
FactorOf(elevationNorm) ==
    IF IsNum(elevationNorm) THEN ((elevationNorm + 200) * 1000) \div 900 ELSE NaN
ElevationFactor(sunEl) == FactorOf(MathMax(-200, MathMin(700, sunEl)))

LowPassCutoff(elevationFactor, lat) ==
    Add(Add(500, MulMilli(4500, elevationFactor)),
        IF IsNum(lat) THEN ((lat + 900) * 1000) \div 1800 ELSE NaN)

HighPassCutoff(elevationFactor, lon) ==
    Add(Sub(200, MulMilli(150, elevationFactor)),
        IF IsNum(lon) THEN MulMilli(50, ((lon + 1800) * 1000) \div 3600) ELSE NaN)

\* the frequency of the harmonic voice oscIdx from its tone
HarmonicFreq(m, fund, useSubharmonics, tone, oscIdx) ==
    MulMilli(IF useSubharmonics THEN DivMilli(fund, tone) ELSE MulMilli(fund, tone),
             OctaveShift(m, oscIdx))

\* the frequency of voice 3
SpeedNorm(speed) == MathMin(IF IsNum(speed) THEN (speed * 1000) \div 358 ELSE NaN, 1000)

SpeedShift(m, speedNorm, speedFreq) ==
    IF m = "pulse" \/ m = "click"
    THEN (IF Lt(speedNorm, 500) THEN speedFreq \div 4 ELSE MulMilli(speedFreq, 4000))
    ELSE speedFreq

SpeedOf(m, speedNorm) == SpeedShift(m, speedNorm, Add(50, MulMilli(950, speedNorm)))
SpeedFreq(m, speed) == SpeedOf(m, SpeedNorm(speed))

\* finalPan of every panner
PanAll(panPosition, densitySpread) ==
    [i \in Voices |->
        MathMax(-800, MathMin(800,
            Add(panPosition, MulMilli((2 * i - 7) * 25, densitySpread))))]

MappedFrom(m, e, fundamental, fund, sunEl, elevationFactor, tones) ==
    [fundamentalFreq |-> fundamental,
     sunElevation |-> sunEl,
     lowPass |-> LowPassCutoff(elevationFactor, e.latitude),
     highPass |-> HighPassCutoff(elevationFactor, e.longitude),
     fund |-> fund,
     harmonic |-> [i \in 0 .. 5 |->
                     HarmonicFreq(m, fund, Gt(fundamental, 200), tones[i + 1],
                                  harmonicIndices[i + 1])],
     speedFreq |-> SpeedFreq(m, e.speed),
     dry |-> IF IsNum(e.humidity) THEN 850 - 3 * e.humidity ELSE NaN,
     wet |-> IF IsNum(e.humidity) THEN 150 + (45 * e.humidity) \div 10 ELSE NaN,
     pan |-> PanAll(MulMilli(Sin(e.heading), 700),
                    Sub(1000, MulMilli(e.populationDensity, 700)))]

MappedWith(m, e, fundamental, drift, sunEl, tones) ==
    MappedFrom(m, e, fundamental, Add(fundamental, drift), sunEl,
               ElevationFactor(sunEl), tones)

\* everything one run of updateFrequencies computes, before it is applied:
\* e is the environmental snapshot, rnd1 and rnd2 the two Math.random() draws
Mapped(m, sc, e, rnd1, rnd2) ==
    MappedWith(m, e, Fundamental(m, e, rnd1), RandomDrift(e, rnd2),
               CalculateSunElevation(e.latitude, e.timeOfDay),
               GetScaleTones(sc, e.heading))

\* ------------------------------------------------------------------------
\* Bounds of the exploration
\* ------------------------------------------------------------------------
\* timer callbacks run in one behaviour
MaxTicks == 2
\* start() calls suspended at `await resume()` at one time
MaxAwaiting == 1
\* audio contexts dropped without close()
MaxLeaked == 1
\* 100 ms resume timers of start() pending at one time
MaxRetry == 1

\* Math.random() draws, in thousandths: the ends of [0, 1)
RandSet == {0, 999}

\* ------------------------------------------------------------------------
\* State
\* ------------------------------------------------------------------------
VARIABLES
    isRunning,        \* this.isRunning
    audioContext,     \* this.audioContext: "null", or the state of the context
    voiceCount,       \* length of this.oscillators, this.gainNodes, this.panners
    mode, waveform, scale,
    env,              \* the 11 environmental fields
    fundamentalFreq, sunElevation, lastHeading,
    freq,             \* per voice: the glide target of oscillators[i].frequency
    pan,              \* per voice: panners[i].pan.value
    fx,               \* lowPass / highPass cutoff, dry / wet gain
    gain,             \* per voice: gainNodes[i].gain as [value, target]
    clickVol,         \* per voice: gain of the last click source it fired
    timbre,           \* the type the oscillators sound with
    waitT,            \* per voice: pending outer timers (all in sporadicTimers)
    holdT,            \* per voice: pending inner timers of the envelope branch
    clickT,           \* per voice: pending inner timers of the click branch
    orphanHold,       \* holdT timers that were pending when stop() ran
    orphanClick,      \* clickT timers that were pending when stop() ran
    stale,            \* handles in sporadicTimers whose timer has fired
    retryT,           \* pending 100 ms resume timers of start()
    awaiting,         \* start() calls suspended at `await resume()`
    awaitingCur,      \* one of them awaits the context this.audioContext names
    leakedCtx,        \* contexts created, never closed, no longer referenced
    op,               \* the last step taken
    outcome,          \* how it ended: "ok", "threw" (or rejected), "pending"
    ticks             \* timer callbacks run so far

cfgVars == <<mode, waveform, scale>>
mapVars == <<fundamentalFreq, sunElevation, lastHeading, freq, pan, fx>>
voiceVars == <<gain, clickVol, timbre>>
timerVars == <<waitT, holdT, clickT, orphanHold, orphanClick, stale>>
lifeVars == <<isRunning, audioContext, voiceCount, retryT, awaiting, awaitingCur, leakedCtx>>
engineVars == <<cfgVars, env, mapVars, voiceVars, timerVars, lifeVars>>
vars == <<engineVars, op, outcome, ticks>>

\* gains are held in units of 1e-7
GainOne == 10 ^ 7

InitEnv ==
    [latitude |-> 0, longitude |-> 0, speed |-> 0, temperature |-> 20,
     humidity |-> 50, heading |-> 0, timeOfDay |-> 500, elevation |-> 0,
     rainfall |-> 0, populationDensity |-> 500, trafficDensity |-> 0]

NoTimers == [i \in Voices |-> 0]
FreshFreq == [i \in Voices |-> 200]
\* a gain node as created: gain 0, no ramp; `stretch` is the factor on the ramp
\* time of the last fade issued to the node, in thousandths (0 before any fade)
FreshGain == [i \in Voices |-> [value |-> 0, target |-> 0, stretch |-> 0]]
FreshPan == [i \in Voices |-> 0]
FreshFx == [lowPass |-> 5000, highPass |-> 100, dry |-> 850, wet |-> 150]
FreshClick == [i \in Voices |-> 0]

\* constructor
InitWith(sc, e) ==
    /\ isRunning = FALSE
    /\ audioContext = "null"
    /\ voiceCount = 0
    /\ mode = "drone"
    /\ waveform = "sine"
    /\ scale = sc
    /\ env = e
    /\ fundamentalFreq = 200
    /\ sunElevation = 0
    /\ lastHeading = 0
    /\ freq = FreshFreq
    /\ pan = FreshPan
    /\ fx = FreshFx
    /\ gain = FreshGain
    /\ clickVol = FreshClick
    /\ timbre = [i \in Voices |-> <<"type", "sine">>]
    /\ waitT = NoTimers
    /\ holdT = NoTimers
    /\ clickT = NoTimers
    /\ orphanHold = NoTimers
    /\ orphanClick = NoTimers
    /\ stale = 0
    /\ retryT = 0
    /\ awaiting = 0
    /\ awaitingCur = FALSE
    /\ leakedCtx = 0
    /\ op = "new"
    /\ outcome = "ok"
    /\ ticks = 0

\* the engine as the constructor leaves it
Init == InitWith("dreyblatt", InitEnv)

\* ------------------------------------------------------------------------
\* updateFrequencies
\* ------------------------------------------------------------------------
\* setOscillatorFrequency(index, frequency) on the targets f of `count` oscillators
SetOscillatorFrequency(f, count, index, frequency) ==
    IF index >= count THEN f ELSE [f EXCEPT ![index] = ClampFreq(frequency)]

\* the modulation of the last tremolo ramp (t = 1.95), rnd = Math.random()
TremoloModulation(rainfall, rnd) ==
    LET tremoloRate == 4000 + 2 * rnd
        rainfallNorm == MathMin(rainfall * 100, 1000)
        tremoloDepth == 100 + MulMilli(700, rainfallNorm)
        phase == (tremoloRate * 702) \div 100
    IN 1000 - tremoloDepth \div 2 + MulMilli(tremoloDepth \div 2, Sin(phase))

\* The rainfall tremolo on the gain nodes g: every node whose gain.value is
\* above 0 has its automation replaced by ramps around that value.
TremoloBy(g, modulation) ==
    [i \in Voices |->
        IF g[i].value > 0
        THEN [g[i] EXCEPT !.target = MulMilli(g[i].value, modulation)]
        ELSE g[i]]

Tremolo(g, rainfall, rnd) == TremoloBy(g, TremoloModulation(rainfall, rnd))

\* The statements of updateFrequencies that hand a value to an AudioParam, in
\* order: 1 lowPass, 2 highPass, 3 voice 0, 4..9 the harmonic voices, 10 voice
\* 3, 11 dry, 12 wet, 13 the panners.  Assigning NaN to an AudioParam (value =
\* NaN, or a ramp to NaN) throws a TypeError, which ends the method there.
StageValue(c, st) ==
    IF st = 1 THEN c.lowPass
    ELSE IF st = 2 THEN c.highPass
    ELSE IF st = 3 THEN ClampFreq(c.fund)
    ELSE IF st <= 9 THEN ClampFreq(c.harmonic[st - 4])
    ELSE IF st = 10 THEN ClampFreq(c.speedFreq)
    ELSE IF st = 11 THEN c.dry
    ELSE IF st = 12 THEN c.wet
    ELSE c.pan[0]

NoThrow == 14

\* the voice a statement writes to, -1 for the statements on the shared nodes
StageVoice(st) ==
    IF st = 3 THEN 0
    ELSE IF 4 <= st /\ st <= 9 THEN harmonicIndices[st - 3]
    ELSE IF st = 10 THEN 3
    ELSE -1

\* the first statement that throws, NoThrow when none does; a statement on a
\* voice that does not exist is skipped (`if (!this.oscillators[index]) return`)
RECURSIVE ThrowStage(_, _, _)
ThrowStage(c, count, st) ==
    IF st = NoThrow THEN NoThrow
    ELSE IF StageVoice(st) < count /\ ~IsNum(StageValue(c, st)) THEN st
    ELSE ThrowStage(c, count, st + 1)

RECURSIVE SetTones(_, _, _, _, _)
SetTones(f, count, c, k, stage) ==
    IF k > 5 \/ stage <= 4 + k THEN f
    ELSE SetTones(SetOscillatorFrequency(f, count, harmonicIndices[k + 1], c.harmonic[k]),
                  count, c, k + 1, stage)

SetFrequencies(f, count, c, stage) ==
    LET root == IF stage > 3 THEN SetOscillatorFrequency(f, count, 0, c.fund) ELSE f
        tones == SetTones(root, count, c, 0, stage)
    IN IF stage > 10 THEN SetOscillatorFrequency(tones, count, 3, c.speedFreq) ELSE tones

\* the values c applied to the state `pre` up to the statement `stage`
ApplyMapped(count, pre, e, c, rnd3, stage) ==
    [fundamentalFreq |-> c.fundamentalFreq,
     sunElevation |-> c.sunElevation,
     fx |-> [lowPass |-> IF stage > 1 THEN c.lowPass ELSE pre.fx.lowPass,
             highPass |-> IF stage > 2 THEN c.highPass ELSE pre.fx.highPass,
             dry |-> IF stage > 11 THEN c.dry ELSE pre.fx.dry,
             wet |-> IF stage > 12 THEN c.wet ELSE pre.fx.wet],
     freq |-> SetFrequencies(pre.freq, count, c, stage),
     lastHeading |-> IF stage > 9 THEN e.heading ELSE pre.lastHeading,
     pan |-> IF stage > 13 THEN c.pan ELSE pre.pan,
     gain |-> IF stage > 13 /\ Gt(e.rainfall, 0)
              THEN Tremolo(pre.gain, e.rainfall, rnd3) ELSE pre.gain,
     threw |-> stage < NoThrow]

ApplyAll(count, pre, e, c, rnd3) == ApplyMapped(count, pre, e, c, rnd3, ThrowStage(c, count, 1))

\* updateFrequencies() run on the state `pre` (the fields it writes) with the
\* draws rnd1..rnd3
UpdateFrequencies(running, count, pre, m, sc, e, rnd1, rnd2, rnd3) ==
    IF ~running THEN [pre EXCEPT !.threw = FALSE]
    ELSE ApplyAll(count, pre, e, Mapped(m, sc, e, rnd1, rnd2), rnd3)

\* the fields updateFrequencies writes, as they stand
MapperState ==
    [fundamentalFreq |-> fundamentalFreq, sunElevation |-> sunElevation,
     fx |-> fx, freq |-> freq, lastHeading |-> lastHeading, pan |-> pan,
     gain |-> gain, threw |-> FALSE]

\* ... and as a run of updateFrequencies leaves them; a TypeError it throws
\* propagates to the caller
SetMapperState(post) ==
    /\ fundamentalFreq' = post.fundamentalFreq
    /\ sunElevation' = post.sunElevation
    /\ fx' = post.fx
    /\ freq' = post.freq
    /\ lastHeading' = post.lastHeading
    /\ pan' = post.pan
    /\ gain' = post.gain
    /\ outcome' = IF post.threw THEN "threw" ELSE "ok"

\* ------------------------------------------------------------------------
\* Pulse scheduler
\* ------------------------------------------------------------------------
\* targetVolume of the envelope branch of the timer callback
TargetVolume(m, oscIndex) ==
    LET base == IF m = "pulse" THEN (8 * GainOne) \div 100 ELSE GainOne \div 10
        bass == IF m = "drone" /\ oscIndex <= 2 THEN (base * 115) \div 100 ELSE base
    IN IF m = "drone"
       THEN (IF oscIndex = 4 \/ oscIndex = 5 THEN bass \div 2
             ELSE IF oscIndex = 6 \/ oscIndex = 7 THEN (bass * 6) \div 10
             ELSE bass)
       ELSE bass

\* targetVolume of the click branch, from the voice's frequency
ClickVolume(f) ==
    IF f > 2000 THEN (35 * GainOne) \div 100
    ELSE IF f > 200 THEN (45 * GainOne) \div 100
    ELSE (60 * GainOne) \div 100

\* a flutter of (rnd - 0.5) itself, without the factor 0.001
OrganicVolumeWide(targetVolume, rnd) == targetVolume + (targetVolume * (rnd - 500)) \div 1000

\* organicVolume of fadeIn: targetVolume * (1 + (rnd - 0.5) * 0.001)
OrganicVolume(targetVolume, rnd) == targetVolume + (targetVolume * (rnd - 500)) \div 1000000

\* a fade-in stretched as at the density the constructor sets
ReverseAttackDefault(density) == 2000

\* a fade-in stretched with the density, not against it
ReverseAttackDirect(density) == Add(1000, MulMilli(density, 2000))

\* reverseAttackMultiplier of fadeIn: 1 + (1 - populationDensity) * 2
ReverseAttackMultiplier(density) == Add(1000, MulMilli(Sub(1000, density), 2000))

\* the 1 ms ramp of the rural cutoff has no stretch
RuralCutoff == 0 - 1

\* fadeMultiplier of fadeOut: populationDensity, unless the rural cutoff applies
FadeMultiplier(density) == IF Lt(density, 300) THEN RuralCutoff ELSE density

\* linearRampToValueAtTime(., now + finalDuration) throws a TypeError when the
\* end time is not finite; the cancelScheduledValues and setValueAtTime before
\* it have acted by then
FadeInThrows(oscIndex) ==
    /\ isRunning /\ oscIndex < voiceCount
    /\ ~IsNum(ReverseAttackMultiplier(env.populationDensity))

FadeOutThrows(oscIndex) ==
    /\ isRunning /\ oscIndex < voiceCount
    /\ ~IsNum(FadeMultiplier(env.populationDensity))

\* a fade-in that ramps every gain node, not only that of oscIndex
FadeInEvery(g, oscIndex, targetVolume, rnd) ==
    [j \in Voices |-> [value |-> 0, target |-> OrganicVolume(targetVolume, rnd),
                       stretch |-> ReverseAttackMultiplier(env.populationDensity)]]

\* fadeIn(oscIndex, ., targetVolume) on the gain nodes g
FadeIn(g, oscIndex, targetVolume, rnd) ==
    IF ~isRunning \/ oscIndex >= voiceCount THEN g
    ELSE [g EXCEPT ![oscIndex] =
              [value |-> 0,
               target |-> IF FadeInThrows(oscIndex) THEN 0
                          ELSE OrganicVolume(targetVolume, rnd),
               stretch |-> ReverseAttackMultiplier(env.populationDensity)]]

\* fadeOut(oscIndex, .) on the gain nodes g
FadeOut(g, oscIndex) ==
    IF ~isRunning \/ oscIndex >= voiceCount THEN g
    ELSE [g EXCEPT ![oscIndex] =
              [value |-> g[oscIndex].value,
               target |-> IF FadeOutThrows(oscIndex) THEN g[oscIndex].value ELSE 0,
               stretch |-> FadeMultiplier(env.populationDensity)]]

\* scheduleSporadicPulse(oscIndex): one more outer timer, pushed to sporadicTimers
ScheduleSporadicPulse(w, oscIndex) == [w EXCEPT ![oscIndex] = @ + 1]

\* startSporadicOscillators(), and the loop at the end of setMode
ScheduleAll(w) == [i \in Voices |-> w[i] + 1]

Tick == ticks < MaxTicks /\ ticks' = ticks + 1

\* a callback that acts whatever the running flag says
CallbackUnguarded == FALSE

\* `if (!this.isRunning) return;` at the head of each of the three timer
\* callbacks: the callback returns at once when CallbackGuard holds
CallbackGuard == ~isRunning

\* the outer timer of voice i fires (the callback passed to setTimeout in
\* scheduleSporadicPulse); rnd is the flutter draw of fadeIn
FireWait(i, rnd) ==
    /\ waitT[i] > 0
    /\ Tick
    /\ op' = "fireWait"
    /\ waitT' = [waitT EXCEPT ![i] = @ - 1]
    /\ stale' = stale + 1
    /\ IF CallbackGuard THEN
           /\ outcome' = "ok"
           /\ UNCHANGED <<gain, clickVol, holdT, clickT>>
       ELSE IF mode = "click" THEN
           /\ outcome' = "ok"
           /\ clickVol' = [clickVol EXCEPT ![i] = ClickVolume(freq[i])]
           /\ clickT' = [clickT EXCEPT ![i] = @ + 1]
           /\ UNCHANGED <<gain, holdT>>
       ELSE
           \* a fadeIn that throws ends the callback before its setTimeout
           /\ outcome' = IF FadeInThrows(i) THEN "threw" ELSE "ok"
           /\ gain' = FadeIn(gain, i, TargetVolume(mode, i), rnd)
           /\ holdT' = IF FadeInThrows(i) THEN holdT ELSE [holdT EXCEPT ![i] = @ + 1]
           /\ UNCHANGED <<clickVol, clickT>>
    /\ UNCHANGED <<cfgVars, env, mapVars, timbre, orphanHold, orphanClick, lifeVars>>

\* the body of the inner timer of the envelope branch
HoldBody(i) ==
    /\ outcome' = IF ~CallbackGuard /\ FadeOutThrows(i) THEN "threw" ELSE "ok"
    /\ IF CallbackGuard THEN UNCHANGED <<gain, waitT>>
       ELSE /\ gain' = FadeOut(gain, i)
            \* a fadeOut that throws ends the callback before the reschedule
            /\ waitT' = IF FadeOutThrows(i) THEN waitT
                        ELSE ScheduleSporadicPulse(waitT, i)
    /\ UNCHANGED <<cfgVars, env, fundamentalFreq, sunElevation, lastHeading, freq, pan, fx,
                   clickVol, timbre, stale, lifeVars>>

\* the body of the inner timer of the click branch
ClickBody(i) ==
    /\ outcome' = "ok"
    /\ IF CallbackGuard THEN UNCHANGED waitT
       ELSE waitT' = ScheduleSporadicPulse(waitT, i)
    /\ UNCHANGED <<cfgVars, env, mapVars, voiceVars, stale, lifeVars>>

\* an inner timer created since the last stop() fires
FireHold(i) ==
    /\ holdT[i] > 0
    /\ Tick
    /\ op' = "fireHold"
    /\ holdT' = [holdT EXCEPT ![i] = @ - 1]
    /\ HoldBody(i)
    /\ UNCHANGED <<clickT, orphanHold, orphanClick>>

FireClick(i) ==
    /\ clickT[i] > 0
    /\ Tick
    /\ op' = "fireClick"
    /\ clickT' = [clickT EXCEPT ![i] = @ - 1]
    /\ ClickBody(i)
    /\ UNCHANGED <<holdT, orphanHold, orphanClick>>

\* an inner timer that was pending when stop() ran fires
FireOrphanHold(i) ==
    /\ orphanHold[i] > 0
    /\ Tick
    /\ op' = "fireOrphan"
    /\ orphanHold' = [orphanHold EXCEPT ![i] = @ - 1]
    /\ HoldBody(i)
    /\ UNCHANGED <<holdT, clickT, orphanClick>>

FireOrphanClick(i) ==
    /\ orphanClick[i] > 0
    /\ Tick
    /\ op' = "fireOrphan"
    /\ orphanClick' = [orphanClick EXCEPT ![i] = @ - 1]
    /\ ClickBody(i)
    /\ UNCHANGED <<holdT, clickT, orphanHold>>

\* the audio clock reaches the end of the ramp scheduled on voice i's gain
RampEnds(i) ==
    /\ i < voiceCount
    /\ gain[i].value # gain[i].target
    /\ Tick
    /\ op' = "rampEnds"
    /\ outcome' = "ok"
    /\ gain' = [gain EXCEPT ![i].value = gain[i].target]
    /\ UNCHANGED <<cfgVars, env, mapVars, clickVol, timbre, timerVars, lifeVars>>

\* ------------------------------------------------------------------------
\* Configuration
\* ------------------------------------------------------------------------
NativeTypes == {"sine", "square", "sawtooth", "triangle"}
PeriodicWaves == {"organ", "square", "metallic", "harsh"}

\* what an oscillator sounds after `oscillator.type = w` at creation: a value
\* outside the OscillatorType enumeration is ignored
TypeAssigned(w) == IF w \in NativeTypes THEN <<"type", w>> ELSE <<"type", "sine">>

\* ... and after the forEach body of setWaveform(w)
WaveformApplied(w) == IF w \in PeriodicWaves THEN <<"periodicWave", w>> ELSE TypeAssigned(w)

\* setWaveform throws when it needs createPeriodicWave and has no context
WaveformThrows(w) == voiceCount > 0 /\ w \in PeriodicWaves /\ audioContext = "null"

ApplyWaveform(w) ==
    IF WaveformThrows(w) THEN timbre
    ELSE [i \in Voices |-> IF i < voiceCount THEN WaveformApplied(w) ELSE timbre[i]]

SetWaveform(w) ==
    /\ op' = "setWaveform"
    /\ outcome' = IF WaveformThrows(w) THEN "threw" ELSE "ok"
    /\ waveform' = w
    /\ timbre' = ApplyWaveform(w)
    /\ UNCHANGED <<mode, scale, env, mapVars, gain, clickVol, timerVars, lifeVars, ticks>>

\* setMode(m): cancels the timers in sporadicTimers and schedules 8 new ones
SetMode(m) ==
    /\ op' = "setMode"
    /\ mode' = m
    /\ timbre' = ApplyWaveform(waveform)
    /\ IF WaveformThrows(waveform) THEN
           /\ outcome' = "threw"
           /\ UNCHANGED <<waitT, stale>>
       ELSE
           /\ outcome' = "ok"
           /\ waitT' = ScheduleAll(NoTimers)
           /\ stale' = 0
    /\ UNCHANGED <<waveform, scale, env, mapVars, gain, clickVol,
                   holdT, clickT, orphanHold, orphanClick, lifeVars, ticks>>

\* ------------------------------------------------------------------------
\* Lifecycle
\* ------------------------------------------------------------------------
\* where start() can raise after the context exists: -1 while the shared graph
\* is built, k in Voices in iteration k of the voice loop (k voices pushed);
\* NumVoices: nowhere
GraphFails == 0 - 1
StartFailures == {GraphFails, 0, 5, NumVoices}

\* the last two calls of start(): updateFrequencies(), and, unless it threw,
\* startSporadicOscillators()
StartSporadicOscillators(post) ==
    /\ SetMapperState(post)
    /\ waitT' = IF post.threw THEN waitT ELSE ScheduleAll(waitT)

\* start() from `setTimeout(..., 100)` to its end, with this.audioContext = ctx
StartBody(ctx, fail, rnd1, rnd2, rnd3) ==
    /\ audioContext' = ctx
    /\ retryT < MaxRetry
    /\ retryT' = retryT + 1
    /\ UNCHANGED <<cfgVars, env, clickVol, holdT, clickT, orphanHold, orphanClick, stale, ticks>>
    /\ IF ctx = "null" \/ fail = GraphFails THEN
           \* createConvolver on null, or a node constructor that throws
           /\ outcome' = "threw"
           /\ UNCHANGED <<isRunning, voiceCount, mapVars, gain, timbre, waitT>>
       ELSE IF fail < NumVoices THEN
           /\ outcome' = "threw"
           /\ voiceCount' = voiceCount + fail
           /\ timbre' = [i \in Voices |->
                           IF voiceCount <= i /\ i < voiceCount + fail
                           THEN TypeAssigned(waveform) ELSE timbre[i]]
           /\ fx' = FreshFx
           /\ UNCHANGED <<isRunning, fundamentalFreq, sunElevation, lastHeading,
                          freq, pan, gain, waitT>>
       ELSE
           LET count == voiceCount + NumVoices
               New(i) == voiceCount <= i
               pre == [MapperState EXCEPT
                         !.fx = FreshFx,
                         !.freq = [i \in Voices |-> IF New(i) THEN 200 ELSE freq[i]],
                         !.pan = [i \in Voices |-> IF New(i) THEN 0 ELSE pan[i]],
                         !.gain = [i \in Voices |->
                                     IF New(i) THEN FreshGain[i] ELSE gain[i]]]
           IN /\ voiceCount' = count
              /\ timbre' = [i \in Voices |-> IF New(i) THEN TypeAssigned(waveform) ELSE timbre[i]]
              /\ isRunning' = TRUE
              /\ \E post \in {UpdateFrequencies(TRUE, count, pre, mode, scale, env,
                                                 rnd1, rnd2, rnd3)} :
                     StartSporadicOscillators(post)

Backends == {"missing", "suspended", "running"}

\* a start() that never returns early
StartUnguarded == FALSE

\* `if (this.isRunning) return;` at the head of start(): the call returns at
\* once when StartGuard holds
StartGuard == isRunning

\* start(): `backend` is what the platform offers, "missing" when there is no
\* AudioContext constructor or it throws, else the state of the new context
Start(backend, fail, rnd1, rnd2, rnd3) ==
    /\ op' = "start"
    /\ IF StartGuard THEN
           /\ outcome' = "ok"
           /\ UNCHANGED <<engineVars, ticks>>
       ELSE IF backend = "missing" THEN
           /\ outcome' = "threw"
           /\ UNCHANGED <<engineVars, ticks>>
       ELSE
           /\ audioContext # "null" => leakedCtx < MaxLeaked
           /\ leakedCtx' = IF audioContext # "null" THEN leakedCtx + 1 ELSE leakedCtx
           /\ IF backend = "suspended" THEN
                  /\ awaiting < MaxAwaiting
                  /\ audioContext' = "suspended"
                  /\ awaiting' = awaiting + 1
                  /\ awaitingCur' = TRUE
                  /\ outcome' = "pending"
                  /\ UNCHANGED <<cfgVars, env, mapVars, voiceVars, timerVars,
                                 isRunning, voiceCount, retryT, ticks>>
              ELSE
                  /\ awaitingCur' = FALSE
                  /\ UNCHANGED awaiting
                  /\ StartBody("running", fail, rnd1, rnd2, rnd3)

\* `await this.audioContext.resume()` settles for a suspended start(): cur says
\* it is the start() whose context this.audioContext still names, ok that the
\* promise resolved
StartResumed(cur, ok, fail, rnd1, rnd2, rnd3) ==
    /\ awaiting > 0
    /\ IF cur THEN awaitingCur ELSE awaiting > (IF awaitingCur THEN 1 ELSE 0)
    /\ op' = "startResumed"
    /\ awaiting' = awaiting - 1
    /\ awaitingCur' = IF cur THEN FALSE ELSE awaitingCur
    /\ UNCHANGED leakedCtx
    /\ IF ~ok THEN
           /\ outcome' = "threw"
           /\ UNCHANGED <<cfgVars, env, mapVars, voiceVars, timerVars,
                          isRunning, audioContext, voiceCount, retryT, ticks>>
       ELSE
           StartBody(IF cur THEN "running" ELSE audioContext, fail, rnd1, rnd2, rnd3)

\* the 100 ms timer of start() fires; ok: the resume() it calls succeeds
FireRetry(ok) ==
    /\ retryT > 0
    /\ op' = "fireRetry"
    /\ outcome' = "ok"
    /\ retryT' = retryT - 1
    /\ audioContext' = IF audioContext = "suspended" /\ ok THEN "running" ELSE audioContext
    /\ UNCHANGED <<cfgVars, env, mapVars, voiceVars, timerVars,
                   isRunning, voiceCount, awaiting, awaitingCur, leakedCtx, ticks>>

\* the statements of stop() after its guard
StopBody ==
    /\ waitT' = NoTimers
    /\ stale' = 0
    /\ orphanHold' = [i \in Voices |-> orphanHold[i] + holdT[i]]
    /\ orphanClick' = [i \in Voices |-> orphanClick[i] + clickT[i]]
    /\ holdT' = NoTimers
    /\ clickT' = NoTimers
    /\ voiceCount' = 0
    /\ freq' = FreshFreq
    /\ pan' = FreshPan
    /\ fx' = FreshFx
    /\ gain' = FreshGain
    /\ clickVol' = FreshClick
    /\ timbre' = [i \in Voices |-> <<"type", "sine">>]
    /\ audioContext' = "null"
    /\ awaitingCur' = FALSE
    /\ isRunning' = FALSE
    /\ UNCHANGED <<cfgVars, env, fundamentalFreq, sunElevation, lastHeading,
                   retryT, awaiting, leakedCtx>>

\* a stop() that always runs its body
StopUnguarded == TRUE

\* `if (!this.isRunning) return;` at the head of stop(): the body runs when
\* StopGuard holds
StopGuard == isRunning

Stop ==
    /\ op' = "stop"
    /\ outcome' = "ok"
    /\ UNCHANGED ticks
    /\ IF StopGuard THEN StopBody ELSE UNCHANGED engineVars

\* ------------------------------------------------------------------------
\* Environmental data
\* ------------------------------------------------------------------------
\* a parameter without a default value
NoDefault(x, d) == x

\* a default parameter value takes the place of undefined (only)
Default(x, d) == IF x = Undef THEN d ELSE x

\* setEnvironmentalData(lat, lon, speed, temp, humidity, heading, timeOfDay,
\*                      populationDensity, trafficDensity, elevation, rainfall)
SetEnvironmentalData(a, rnd1, rnd2, rnd3) ==
    LET e == [latitude |-> a.latitude, longitude |-> a.longitude, speed |-> a.speed,
              temperature |-> a.temperature, humidity |-> a.humidity,
              heading |-> a.heading, timeOfDay |-> a.timeOfDay,
              populationDensity |-> Default(a.populationDensity, 500),
              trafficDensity |-> Default(a.trafficDensity, 0),
              elevation |-> Default(a.elevation, 0),
              rainfall |-> Default(a.rainfall, 0)]
    IN /\ op' = "setEnvironmentalData"
       /\ env' = e
       /\ \E post \in {UpdateFrequencies(isRunning, voiceCount, MapperState, mode, scale,
                                          e, rnd1, rnd2, rnd3)} :
              SetMapperState(post)
       /\ UNCHANGED <<cfgVars, clickVol, timbre, timerVars, lifeVars, ticks>>

SetScale(sc, rnd1, rnd2, rnd3) ==
    /\ op' = "setScale"
    /\ scale' = sc
    /\ \E post \in {UpdateFrequencies(isRunning, voiceCount, MapperState, mode, sc, env,
                                       rnd1, rnd2, rnd3)} :
           SetMapperState(post)
    /\ UNCHANGED <<mode, waveform, env, clickVol, timbre, timerVars, lifeVars, ticks>>

\* ------------------------------------------------------------------------
\* Specifications
\* ------------------------------------------------------------------------
\* The voices whose timers come due in the window explored: one of
\* each volume class of the scheduler (bass 0-2, speed voice 3, 4-5, 6-7).
Firing == {0, 3, 4, 6}

\* The scheduler and the lifecycle: a backend that is there and running, the
\* timers of the firing voices, mode switches, stop and restart.
Next ==
    \/ Start("running", NumVoices, 0, 0, 0)
    \/ \E k \in BOOLEAN : FireRetry(k)
    \/ Stop
    \/ \E m \in Modes : SetMode(m)
    \/ \E i \in Firing : FireWait(i, 0)
    \/ \E i \in Firing : FireHold(i)
    \/ \E i \in Firing : FireClick(i)
    \/ \E i \in Firing : FireOrphanHold(i)
    \/ \E i \in Firing : FireOrphanClick(i)

Spec == Init /\ [][Next]_vars

\* The lifecycle: every backend, failures of start(), suspended starts and
\* their resume timers, stop and mode switches; no scheduler timer fires.
NextLife ==
    \/ \E b \in Backends, f \in StartFailures, r \in RandSet : Start(b, f, r, r, r)
    \/ \E c, k \in BOOLEAN, f \in StartFailures, r \in RandSet : StartResumed(c, k, f, r, r, r)
    \/ \E k \in BOOLEAN : FireRetry(k)
    \/ Stop
    \/ \E m \in Modes : SetMode(m)

SpecLife == Init /\ [][NextLife]_vars

\* The gain path: the envelopes of the firing voices with the flutter draw
\* that gives the loudest target, the audio clock, and an environmental update that brings rain
\* (the engine starts with the constructor's values: no rain, density 0.5).
WithRain(d, rain) == [InitEnv EXCEPT !.populationDensity = d, !.rainfall = rain]
GainEnvs == {WithRain(1000, 20)}

NextGain ==
    \/ Start("running", NumVoices, 0, 0, 0)
    \/ \E m \in Modes : SetMode(m)
    \/ \E i \in Firing : FireWait(i, 999)
    \/ \E i \in Firing : FireHold(i)
    \/ \E i \in Firing : FireClick(i)
    \/ \E i \in Firing : RampEnds(i)
    \/ \E a \in GainEnvs : SetEnvironmentalData(a, 0, 0, 0)

SpecGain == Init /\ [][NextGain]_vars

\* setOscillatorFrequency(index, frequency) called on its own
SetOscillatorFrequencyCall(index, frequency) ==
    /\ op' = "setOscillatorFrequency"
    /\ outcome' = "ok"
    /\ freq' = SetOscillatorFrequency(freq, voiceCount, index, frequency)
    /\ UNCHANGED <<cfgVars, env, fundamentalFreq, sunElevation, lastHeading, pan, fx,
                   voiceVars, timerVars, lifeVars, ticks>>

\* The mapper with finite inputs: the constructor's values, a reading with a
\* temperature of 40000 and a speed below 0, and a polar night in the cold at
\* top speed with a heading below 0.
Reading(lat, lon, speed, temp, humidity, heading, timeOfDay, density) ==
    [latitude |-> lat, longitude |-> lon, speed |-> speed, temperature |-> temp,
     humidity |-> humidity, heading |-> heading, timeOfDay |-> timeOfDay,
     populationDensity |-> density, trafficDensity |-> 0, elevation |-> 0,
     rainfall |-> 0]

FiniteEnvs ==
    {InitEnv,
     Reading(450, 1800, -10, 40000, 100, 3150, 750, 1000),
     Reading(-900, -1800, 400, -50, 0, -100, 0, 0)}

FiniteFrequencies == {-50, 0, 1000000000}
ScaleNames == {"dreyblatt", "harmonic", "unknown"}

NextEnv ==
    \/ Start("running", NumVoices, 0, 0, 0)
    \/ \E m \in Modes : SetMode(m)
    \/ \E sc \in ScaleNames : SetScale(sc, 999, 999, 0)
    \/ \E a \in FiniteEnvs, r \in RandSet : SetEnvironmentalData(a, r, r, 0)
    \/ \E f \in FiniteFrequencies : SetOscillatorFrequencyCall(0, f)

SpecEnv == Init /\ [][NextEnv]_vars

\* The mapper with readings of which one field is NaN or missing.
BadValues == {NaN, Undef}

BadEnvs ==
    UNION {{[InitEnv EXCEPT !.temperature = v], [InitEnv EXCEPT !.humidity = v],
            [InitEnv EXCEPT !.populationDensity = v], [InitEnv EXCEPT !.heading = v],
            [InitEnv EXCEPT !.latitude = v], [InitEnv EXCEPT !.longitude = v],
            [InitEnv EXCEPT !.speed = v], [InitEnv EXCEPT !.timeOfDay = v],
            [InitEnv EXCEPT !.rainfall = v]} : v \in BadValues}

NextBad ==
    \/ Start("running", NumVoices, 0, 0, 0)
    \/ Stop
    \/ \E a \in BadEnvs \cup {InitEnv} : SetEnvironmentalData(a, 0, 0, 0)

SpecBad == Init /\ [][NextBad]_vars

\* ------------------------------------------------------------------------
\* Properties
\* ------------------------------------------------------------------------
\* the scheduler timers of voice i that are pending, tracked or not
Pending(i) == waitT[i] + holdT[i] + clickT[i] + orphanHold[i] + orphanClick[i]

\* C1: while the engine runs, right after a setMode call every one of the 8
\* voices has exactly one pending scheduler timer, whatever phase the voice
\* was in when setMode was called.
C1_OneChainPerVoice ==
    (op = "setMode" /\ isRunning) => \A i \in Voices : Pending(i) = 1

\* C1, the case that breaks it: setMode called while voice 0 holds between its
\* fade-in and its fade-out
C1_SetModeWhileHolding == op = "setMode" /\ isRunning /\ holdT[0] = 1 /\ waitT[0] = 1

\* C2: a callback that was scheduled before stop() returned changes no voice
\* gain and schedules no timer, whenever it fires, also after a restart.
C2_StoppedCallbacksInert ==
    [][op' = "fireOrphan" => (gain' = gain /\ waitT' = waitT)]_vars

\* C2, the case that breaks it: a hold timer that outlived stop() has fired on
\* the restarted engine and scheduled a second timer for its voice
C2_OrphanRescheduled == op = "fireOrphan" /\ isRunning /\ \E i \in Voices : waitT[i] = 2

\* C3: the glide target of every voice lies in [20, 20000] Hz after any
\* sequence of start, setEnvironmentalData, setMode, setScale and
\* setOscillatorFrequency calls with finite inputs.
C3_FrequencyInRange == \A i \in Voices : 20 <= freq[i] /\ freq[i] <= 20000

\* C3, its case: an update whose fundamental lies above the range and whose
\* speed frequency lies below it has been applied
C3_ClampedBothEnds ==
    /\ op = "setEnvironmentalData"
    /\ isRunning
    /\ Gt(fundamentalFreq, 20000)
    /\ freq[0] = 20000
    /\ freq[3] = 20

\* C4: a setEnvironmentalData call of which a field is NaN or undefined
\* completes without throwing.
C4_BadFieldDefaulted == op = "setEnvironmentalData" => outcome = "ok"

\* C4, the case that breaks it: a NaN temperature has made the fundamental NaN
\* and the update has thrown on the running engine
C4_NaNTemperatureThrows ==
    /\ op = "setEnvironmentalData"
    /\ isRunning
    /\ env.temperature = NaN
    /\ fundamentalFreq = NaN
    /\ outcome = "threw"

\* C5: start() called on a running engine changes nothing of the engine: no
\* context, no voice and no timer is added.
C5_StartWhileRunningNoOp ==
    [][(isRunning /\ op' = "start") => (outcome' = "ok" /\ UNCHANGED engineVars)]_vars

\* C5, its case: start() has been called on the running engine, after the
\* resume timer of the start() that built it had fired
C5_StartedTwice ==
    /\ op = "start"
    /\ isRunning
    /\ retryT = 0
    /\ voiceCount = NumVoices
    /\ \A i \in Voices : waitT[i] = 1

C7_StopReleasesFailedStart == op = "stop" => (audioContext = "null" /\ voiceCount = 0)

\* C7, the case that breaks it: stop() has returned on an engine whose start()
\* failed after 5 voices, and the context and the voices are still there
C7_FailedStartKept ==
    op = "stop" /\ ~isRunning /\ audioContext = "running" /\ voiceCount = 5

\* C8: start() does not throw (its promise does not reject) when there is no
\* audio backend.
C8_MissingBackendSilent == (op = "start" /\ audioContext = "null") => outcome # "threw"

\* C8, the case that breaks it: start() on a fresh engine without a backend
C8_MissingBackendThrows ==
    op = "start" /\ audioContext = "null" /\ ~isRunning /\ outcome = "threw" /\ retryT = 0

\* C9: a start() that found the backend suspended does not reject, also when
\* its resume attempt fails.
C9_SuspendedStartNeverRejects ==
    (op = "startResumed" /\ audioContext = "suspended") => outcome # "threw"

\* C9, the case that breaks it: resume() has failed, start() has rejected and
\* no timer is left that would try again
C9_ResumeFailureRejects ==
    /\ op = "startResumed"
    /\ audioContext = "suspended"
    /\ outcome = "threw"
    /\ retryT = 0
    /\ awaiting = 0

\* C10: every value the scheduler ramps a voice's gain to lies in [0, 0.15],
\* for every mode, voice and flutter draw, and no voice's gain is below 0.
C10_GainInRange ==
    /\ \A m \in Modes, i \in Voices, rnd \in RandSet :
          /\ 0 <= OrganicVolume(TargetVolume(m, i), rnd)
          /\ OrganicVolume(TargetVolume(m, i), rnd) <= (15 * GainOne) \div 100
    /\ \A i \in Voices :
          /\ 0 <= gain[i].target
          /\ gain[i].target <= (15 * GainOne) \div 100
          /\ 0 <= gain[i].value

\* C10, its case: a fade-in of a bass voice in drone mode with the flutter
\* draw at its upper end
C10_LoudestFadeIn ==
    /\ op = "fireWait"
    /\ mode = "drone"
    /\ \E i \in Voices : gain[i].target > (115 * GainOne) \div 1000

\* the peak gain the timer callback of voice i applies in mode m when the
\* voice sounds at frequency f: the click source's gain in click mode, else the
\* envelope target with the flutter draw at its upper end
PeakGain(m, f, i) ==
    IF m = "click" THEN ClickVolume(f) ELSE OrganicVolume(TargetVolume(m, i), 999)

\* the sum of the peak gains of the voices 0 .. n - 1 triggered together
RECURSIVE SumPeaks(_, _, _)
SumPeaks(m, f, n) == IF n = 0 THEN 0 ELSE SumPeaks(m, f, n - 1) + PeakGain(m, f[n - 1], n - 1)

\* C11: in every mode, the peak gains of the 8 voices triggered at the same
\* moment (envelope targets, click gains in click mode) sum to less than 1.0.
C11_PeakSumBelowClipping ==
    isRunning => \A m \in Modes : SumPeaks(m, freq, NumVoices) < GainOne

\* C11, the case that breaks it: in click mode two voices have fired clicks
\* whose gains alone sum to 1.0 or more
C11_TwoClicksClip ==
    /\ isRunning
    /\ mode = "click"
    /\ op = "fireWait"
    /\ \E i, j \in Voices : i # j /\ clickVol[i] + clickVol[j] >= GainOne

\* C12: while the engine runs, no voice's chain is ever without a pending
\* timer (so that, the timers firing, every voice is triggered again and again).
C12_ChainNeverEmpty == isRunning => \A i \in Voices : Pending(i) >= 1

\* C12, the case that breaks it: start() has set the running flag, its
\* updateFrequencies() has thrown on a NaN reading stored while the engine was
\* stopped, and no voice has a timer
C12_RunningWithoutChains ==
    /\ op = "start"
    /\ isRunning
    /\ outcome = "threw"
    /\ \A i \in Voices : Pending(i) = 0


(***************************************************************************)
(* getScaleTones() called on the engine                                    *)
(***************************************************************************)
\* the headings an engine is given: every 15 degrees, 0.1 degree either side of
\* each quadrant boundary, and one reading outside [0, 360) on each side
QuadrantEdges == {899, 901, 1799, 1801, 2699, 2701, 3599, 0}
TonesHeadings == {150 * k : k \in 0..23} \cup QuadrantEdges \cup {0 - 100, 3700}
TonesScales == Scales \cup {"unknown"}

\* getScaleTones() read from the heading of the last recompute
StaleGetScaleTones == GetScaleTones(scale, lastHeading)

\* this.getScaleTones(): the method reads this.scale and this.heading
ThisGetScaleTones == GetScaleTones(scale, env.heading)

\* a call of getScaleTones(): it assigns no field of the engine
GetScaleTonesCall ==
    /\ op' = "getScaleTones"
    /\ outcome' = "ok"
    /\ UNCHANGED <<engineVars, ticks>>

\* an engine constructed, then given a scale and a heading while stopped
InitTones ==
    \E sc \in TonesScales, h \in TonesHeadings :
        InitWith(sc, [InitEnv EXCEPT !.heading = h])

NextTones ==
    \/ GetScaleTonesCall
    \/ Start("running", NumVoices, 0, 0, 0)
    \/ \E m \in Modes : SetMode(m)

SpecTones == InitTones /\ [][NextTones]_vars

Range(s) == {s[k] : k \in 1..Len(s)}

\* C14: for each of the five named scales and each heading in [0, 360),
\* getScaleTones returns exactly 6 values and each of them is an element of the
\* scale's ratio sequence: every index it computes falls inside the sequence,
\* so no value is undefined. The headings are those the engine was given, and,
\* for each scale, every tenth of a degree of [0, 360).
SixOf(tones, r) == Len(tones) = 6 /\ \A k \in 1..6 : tones[k] \in Range(r)

C14_SixTonesOfTheScale ==
    /\ (scale \in Scales /\ env.heading >= 0 /\ env.heading < 3600) =>
            SixOf(ThisGetScaleTones, ScaleRatios(scale))
    /\ (scale \in Scales /\ op = "new" /\ env.heading = 0) =>
            \A h \in 0..3599 : SixOf(GetScaleTones(scale, h), ScaleRatios(scale))

\* a heading in the south quadrant whose last strided indices pass the end of
\* the sequence and are clamped to its last element
C14_ClampedAtTheEnd ==
    /\ op = "getScaleTones" /\ scale = "dreyblatt" /\ env.heading = 2550
    /\ ThisGetScaleTones[5] = 3375 /\ ThisGetScaleTones[4] = 3375


\* the pairs of headings 0.1 degree below and above each quadrant boundary
\* (the west quadrant ends at 359.9 and the north one begins at 0)
BoundaryPairs == {<<899, 901>>, <<1799, 1801>>, <<2699, 2701>>, <<3599, 0>>}

Shares(a, b) == Range(a) \cap Range(b) # {}

\* C15: for every named scale, the six ratios selected just below a quadrant
\* boundary and the six selected just above it have at least one ratio in
\* common, at each of the four boundaries: turning across a boundary never
\* replaces the whole chord.
C15_BoundaryTonesOverlap ==
    scale \in Scales =>
        \A p \in BoundaryPairs :
            /\ Shares(GetScaleTones(scale, p[1]), GetScaleTones(scale, p[2]))
            /\ env.heading = p[1] => Shares(ThisGetScaleTones, GetScaleTones(scale, p[2]))
            /\ env.heading = p[2] => Shares(ThisGetScaleTones, GetScaleTones(scale, p[1]))

\* getScaleTones called just below the south/west boundary, where the chord
\* above the boundary keeps only the last ratio of the sequence
C15_CalledAtBoundary ==
    /\ op = "getScaleTones" /\ scale = "dreyblatt" /\ env.heading = 2699
    /\ Range(ThisGetScaleTones) \cap Range(GetScaleTones(scale, 2701)) = {3375}


\* C16: the ratio sequence getScaleTones builds for the engine's scale, the
\* fallback of an unknown scale included, starts at 1.0 and never decreases
\* from one element to the next.
C16_RatiosAscendFromOne ==
    /\ ScaleRatios(scale)[1] = 1000
    /\ \A k \in 1..(Len(ScaleRatios(scale)) - 1) :
           ScaleRatios(scale)[k] <= ScaleRatios(scale)[k + 1]

\* getScaleTones called with the slendro scale, whose second octave ends on
\* 3.74 and whose tritave block begins on 3.0
C16_SlendroStepsDown ==
    /\ op = "getScaleTones" /\ scale = "slendro"
    /\ ScaleRatios(scale)[10] = 3740 /\ ScaleRatios(scale)[11] = 3000


(***************************************************************************)
(* The wait interval of scheduleSporadicPulse, in milliseconds             *)
(***************************************************************************)
primeIntervals == <<37, 41, 43, 47, 53, 59, 61, 67>>

\* baseInterval of click mode: primeIntervals[oscIndex] * (40 + speedNorm * 20)
BaseInterval(oscIndex, speedNorm) ==
    (primeIntervals[oscIndex + 1] * (40000 + 20 * speedNorm)) \div 1000

\* the least interval the draws can give (Math.random() = 0 throughout; in
\* click mode the jitter is then -5% of baseInterval and extraSilence is 0)
MinInterval(m, oscIndex, speedNorm) ==
    IF m = "pulse" THEN
        (IF oscIndex = 3 THEN 12000 - 8 * speedNorm ELSE 8000 - 5 * speedNorm)
    ELSE IF m = "click" THEN
        BaseInterval(oscIndex, speedNorm) - (5 * BaseInterval(oscIndex, speedNorm)) \div 100
    ELSE
        (IF oscIndex = 3 THEN 15000 - 10 * speedNorm ELSE 12000 - 8 * speedNorm)

\* the bound the interval stays below (Math.random() towards 1; in click mode
\* the jitter is then +5% of baseInterval and extraSilence 10000)
MaxInterval(m, oscIndex, speedNorm) ==
    IF m = "pulse" THEN
        (IF oscIndex = 3 THEN 20000 - 12 * speedNorm ELSE 15000 - 8 * speedNorm)
    ELSE IF m = "click" THEN
        BaseInterval(oscIndex, speedNorm) + (5 * BaseInterval(oscIndex, speedNorm)) \div 100 + 10000
    ELSE
        (IF oscIndex = 3 THEN 25000 - 15 * speedNorm ELSE 20000 - 12 * speedNorm)

\* speeds in tenths of m/s: standing, walking, cycling, half of and the whole
\* of 35.8 m/s, and two speeds above it
Speeds == {0, 14, 60, 179, 358, 400, 1000}

\* C17: in the engine's mode, for every voice, the lower and the upper bound of
\* the interval scheduleSporadicPulse draws do not grow when the speed grows
\* (over 0..35.8 m/s, and are the same at every speed above), and the lower
\* bound is at most the upper bound.
C17_IntervalShrinksWithSpeed ==
    \A i \in Voices, s1, s2 \in Speeds :
        /\ MinInterval(mode, i, SpeedNorm(s1)) <= MaxInterval(mode, i, SpeedNorm(s1))
        /\ s1 <= s2 =>
               /\ MinInterval(mode, i, SpeedNorm(s2)) <= MinInterval(mode, i, SpeedNorm(s1))
               /\ MaxInterval(mode, i, SpeedNorm(s2)) <= MaxInterval(mode, i, SpeedNorm(s1))

\* click mode set on a running engine: voice 0 is rescheduled with an interval
\* of at least 1406 ms at rest and at least 2109 ms at 35.8 m/s
C17_ClickIntervalGrows ==
    /\ op = "setMode" /\ mode = "click" /\ isRunning /\ waitT[0] > 0
    /\ MinInterval(mode, 0, SpeedNorm(0)) = 1406
    /\ MinInterval(mode, 0, SpeedNorm(358)) = 2109


(***************************************************************************)
(* The envelope under environmental updates                                *)
(***************************************************************************)
\* the audio clock reaches the middle of a fade-in ramp of voice i:
\* gain.value now reads half of the ramp's target
RampAdvances(i) ==
    /\ i < voiceCount
    /\ gain[i].value = 0
    /\ gain[i].target > 0
    /\ op' = "rampAdvances"
    /\ outcome' = "ok"
    /\ gain' = [gain EXCEPT ![i].value = gain[i].target \div 2]
    /\ UNCHANGED <<cfgVars, env, mapVars, clickVol, timbre, timerVars, lifeVars, ticks>>

\* the fadeOut argument scheduleSporadicPulse draws, in microseconds
\* (rnd = Math.random(); in click mode the three values follow clickType)
BaseFadeOut(m, rnd) ==
    IF m = "pulse" THEN 10000 + 40 * rnd
    ELSE IF m = "click" THEN (IF rnd < 500 THEN 100 ELSE IF rnd < 800 THEN 1000 ELSE 3000)
    ELSE 2000000 + 4000 * rnd

\* the ramp time of fadeOut with the rural branch left out
FadeOutOrganic(density, duration, rnd) ==
    MulMilli(MathMax(10000, duration + (rnd - 500) * 20), density)

\* the time fadeOut gives its ramp to 0, in microseconds: 1 ms under the rural
\* cutoff, else organicDuration * populationDensity
FadeOutRamp(density, duration, rnd) ==
    IF Lt(density, 300) THEN 1000
    ELSE MulMilli(MathMax(10000, duration + (rnd - 500) * 20), density)

\* city, with and without rain, and open country
RainEnvs == {WithRain(1000, 20), WithRain(100, 0), WithRain(299, 20)}

NextRain ==
    \/ Start("running", NumVoices, 0, 0, 0)
    \/ \E i \in Firing : FireWait(i, 0)
    \/ \E i \in Firing : RampAdvances(i)
    \/ \E i \in Firing : RampEnds(i)
    \/ \E i \in Firing : FireHold(i)
    \/ \E a \in RainEnvs : SetEnvironmentalData(a, 0, 0, 0)

SpecRain == Init /\ [][NextRain]_vars

\* C18: when the hold timer of a voice fires on a running engine whose
\* population density is below 0.3, the fade-out it issues ramps the voice's
\* gain to 0, and the ramp ends within 2 ms whatever the mode's base fade-out
\* time and the irregularity draw.
C18_RuralCutoffWithinTwoMs ==
    [][(op' = "fireHold" /\ isRunning /\ Lt(env.populationDensity, 300)) =>
          \A i \in Voices : holdT'[i] < holdT[i] =>
              /\ gain'[i].target = 0
              /\ \A m \in Modes, r1, r2 \in RandSet :
                     FadeOutRamp(env.populationDensity, BaseFadeOut(m, r1), r2) <= 2000]_vars

\* a fade-out issued in open country to a voice half way up its fade-in
C18_RuralFadeOutIssued ==
    /\ op = "fireHold" /\ isRunning /\ env.populationDensity = 299
    /\ \E i \in Voices : gain[i].target = 0 /\ gain[i].value > 0


\* C19: a call of setEnvironmentalData, with the recompute it runs, leaves the
\* gain value and the scheduled gain automation of every voice as they were.
C19_UpdateLeavesGains ==
    [][op' = "setEnvironmentalData" => gain' = gain]_vars

\* an update with rain on a running engine with a voice sounding at its full
\* level: the voice's gain is now ramped towards a lower level by the tremolo
C19_TremoloRewritesGain ==
    /\ op = "setEnvironmentalData" /\ isRunning /\ env.rainfall > 0
    /\ \E i \in Voices : gain[i].value = OrganicVolume(TargetVolume(mode, i), 0)
                         /\ 0 < gain[i].target /\ gain[i].target < gain[i].value

\* a voice whose fade-in or fade-out ramp is under way
FadingIn(g) == g.value < g.target
FadingOut(g) == g.target = 0 /\ g.value > 0

\* C20: an update, with rain or without, that arrives while a voice is fading
\* in or fading out leaves that fade's ramp in place: the fade still heads for
\* the level it was issued with (0 for a fade-out).
C20_UpdateKeepsFades ==
    [][op' = "setEnvironmentalData" =>
          \A i \in Voices :
              (FadingIn(gain[i]) \/ FadingOut(gain[i])) => gain'[i].target = gain[i].target]_vars

\* a fade-out that was issued and then replaced by the tremolo: the voice is
\* held at a level above 0 with no hold timer left to fade it out
C20_FadeOutCancelled ==
    /\ op = "setEnvironmentalData" /\ isRunning /\ env.rainfall > 0
    /\ \E i \in Voices : /\ holdT[i] = 0 /\ waitT[i] > 0
                         /\ gain[i].value > 0 /\ gain[i].target > 0
                         /\ gain[i].target < gain[i].value


(***************************************************************************)
(* Environmental data given to a configured engine                         *)
(***************************************************************************)
\* setEnvironmentalData called with all 11 arguments, with the 7 required ones
\* only, and with a heading left of north that was not brought into [0, 360)
ArgsFull ==
    [latitude |-> 450, longitude |-> 90, speed |-> 179, temperature |-> 25,
     humidity |-> 80, heading |-> 1200, timeOfDay |-> 250, populationDensity |-> 900,
     trafficDensity |-> 300, elevation |-> 100, rainfall |-> 0]
ArgsShort ==
    [latitude |-> 0 - 300, longitude |-> 0 - 1200, speed |-> 0, temperature |-> 5,
     humidity |-> 30, heading |-> 3150, timeOfDay |-> 750, populationDensity |-> Undef,
     trafficDensity |-> Undef, elevation |-> Undef, rainfall |-> Undef]
ArgsWest == [ArgsFull EXCEPT !.latitude = 100, !.heading = 0 - 100, !.temperature = 0 - 5]
CallArgs == {ArgsFull, ArgsShort, ArgsWest}

NextData ==
    \/ Start("running", NumVoices, 0, 0, 0)
    \/ \E k \in BOOLEAN : FireRetry(k)
    \/ Stop
    \/ \E m \in Modes : SetMode(m)
    \/ \E sc \in {"dreyblatt", "harmonic"} : SetScale(sc, 0, 0, 0)
    \/ \E a \in CallArgs : SetEnvironmentalData(a, 0, 0, 0)

SpecData == Init /\ [][NextData]_vars

\* the snapshot the engine holds after a call with arguments a
Supplied(a) ==
    [a EXCEPT !.populationDensity = IF @ = Undef THEN 500 ELSE @,
              !.trafficDensity = IF @ = Undef THEN 0 ELSE @,
              !.elevation = IF @ = Undef THEN 0 ELSE @,
              !.rainfall = IF @ = Undef THEN 0 ELSE @]

\* the fields of the engine a recompute assigns
Recomputed(s) == <<s.fundamentalFreq, s.sunElevation, s.fx, s.freq, s.lastHeading, s.pan, s.gain>>

\* C21: after setEnvironmentalData each of the 11 environmental fields is the
\* argument of the call, or the default (density 0.5, traffic 0, elevation 0,
\* rainfall 0) of an omitted argument, so none keeps its previous value; the
\* mapper's fields are those one recompute from the new snapshot gives; mode,
\* waveform, scale and every scheduler timer are as before the call.
C21_SnapshotReplacedWhole ==
    [][op' = "setEnvironmentalData" =>
          /\ \E a \in CallArgs : env'.latitude = a.latitude /\ env' = Supplied(a)
          /\ Recomputed(MapperState') =
                 Recomputed(UpdateFrequencies(isRunning, voiceCount, MapperState, mode,
                                              scale, env', 0, 0, 0))
          /\ UNCHANGED <<cfgVars, timerVars>>]_vars

\* a call with the four optional arguments omitted, on a running engine in
\* pulse mode with its 8 timers pending
C21_ShortCallDefaults ==
    /\ op = "setEnvironmentalData" /\ isRunning /\ mode = "pulse"
    /\ env.latitude = 0 - 300 /\ env.populationDensity = 500 /\ env.rainfall = 0
    /\ \A i \in Voices : waitT[i] = 1


\* 50 + 950 * min(speed / 35.8, 1), in Hz, for a speed in tenths of m/s
DroneSpeedFreq(speed) == 50 + (950 * (IF speed >= 358 THEN 1000 ELSE (speed * 1000) \div 358)) \div 1000

\* C22: after a recompute (setEnvironmentalData, setScale, or the one start()
\* runs) voice 3's target frequency is the function of speed and mode alone:
\* 50 + 950 * min(speed / 35.8, 1) Hz in drone mode, and in every mode the same
\* for any heading, scale, temperature, position, time of day, humidity and
\* population density.
C22_SpeedVoiceBySpeedAndMode ==
    [][(/\ isRunning'
        /\ \/ op' \in {"setEnvironmentalData", "setScale"}
           \/ op' = "start" /\ ~isRunning) =>
          /\ freq'[3] = ClampFreq(SpeedFreq(mode', env'.speed))
          /\ mode' = "drone" => freq'[3] = DroneSpeedFreq(env'.speed)]_vars

\* a reading with speed 17.9 m/s and a heading of -10 degrees on an engine that
\* was started at rest: the recompute stopped before it reached voice 3
C22_SpeedVoiceLeftBehind ==
    /\ op = "setEnvironmentalData" /\ outcome = "threw" /\ isRunning /\ mode = "drone"
    /\ env.speed = 179 /\ env.heading = 0 - 100
    /\ freq[3] = 50


(***************************************************************************)
(* Waveform changes on a scheduled engine                                  *)
(***************************************************************************)
Waveforms == {"sine", "square", "organ"}

NextWave ==
    \/ Start("running", NumVoices, 0, 0, 0)
    \/ \E k \in BOOLEAN : FireRetry(k)
    \/ Stop
    \/ \E m \in Modes : SetMode(m)
    \/ \E w \in Waveforms : SetWaveform(w)
    \/ \E i \in Firing : FireWait(i, 0)
    \/ \E i \in Firing : FireHold(i)
    \/ \E i \in Firing : FireClick(i)

SpecWave == Init /\ [][NextWave]_vars

\* C23: setWaveform on a running engine cancels the outstanding scheduler
\* timers of all 8 voices and schedules all 8 voices afresh, as setMode does:
\* after the call every voice has one outer timer pending, in sporadicTimers,
\* and no hold or click timer of the cycle it was in.
C23_SetWaveformReschedulesAll ==
    [][(op' = "setWaveform" /\ isRunning) =>
          /\ waitT' = ScheduleAll(NoTimers)
          /\ holdT' = NoTimers
          /\ clickT' = NoTimers]_vars

\* setWaveform called while a voice is in its hold phase: the voice keeps its
\* hold timer and has no outer timer
C23_WaveformKeepsCycle ==
    /\ op = "setWaveform" /\ isRunning /\ waveform = "organ"
    /\ \E i \in Voices : holdT[i] = 1 /\ waitT[i] = 0


\* the name of the waveform an oscillator sounds
Sounding(t) == t[2]

\* C25: whenever the engine is running, each of the 8 voices sounds the
\* configured waveform: after start(), also a restart with a custom timbre
\* configured, after setWaveform and after setMode.
C25_VoicesPlayConfiguredWaveform ==
    isRunning => \A i \in Voices : Sounding(timbre[i]) = waveform

\* an engine restarted with the organ timbre configured: its 8 new oscillators
\* sound the default sine
C25_RestartedAsSine ==
    /\ op = "start" /\ isRunning /\ outcome = "ok" /\ waveform = "organ"
    /\ \A i \in Voices : timbre[i] = <<"type", "sine">>


\* C24: a stop() of a running engine leaves, for the start() that follows, the
\* configuration (mode, waveform, scale) as it was and nothing else of the run
\* it ends: the environmental fields and the fundamental frequency are at the
\* values the constructor gives them, there is no voice or audio context, and
\* no scheduler callback of the run is pending.
C24_OnlyConfigurationSurvives ==
    [][(op' = "stop" /\ isRunning) =>
          /\ UNCHANGED cfgVars
          /\ env' = InitEnv
          /\ fundamentalFreq' = 200
          /\ voiceCount' = 0 /\ audioContext' = "null"
          /\ \A i \in Voices : Pending(i)' = 0]_vars

\* a stopped engine that still holds the last reading and the fundamental
\* frequency computed from it
C24_ReadingSurvivesStop ==
    /\ op = "stop" /\ ~isRunning /\ voiceCount = 0
    /\ env = Supplied(ArgsFull) /\ fundamentalFreq # 200
    /\ mode = "pulse" /\ scale = "harmonic"


(***************************************************************************)
(* The durations scheduleSporadicPulse draws, in microseconds              *)
(***************************************************************************)
\* the fadeIn argument (rnd = Math.random())
BaseFadeIn(m, rnd) ==
    IF m = "pulse" THEN 20000 + 60 * rnd
    ELSE IF m = "click" THEN 100
    ELSE 1000000 + 2000 * rnd

\* duration: the delay of the hold timer, set when the fade-in is issued
HoldDuration(m, rnd) ==
    IF m = "pulse" THEN 50000 + 250 * rnd
    ELSE IF m = "click" THEN 500 + 2 * rnd
    ELSE 4000000 + 8000 * rnd

\* finalDuration of fadeIn: max(0.01, duration + irregularity) * reverseAttackMultiplier
FadeInRamp(density, duration, rnd) ==
    MulMilli(MathMax(10000, duration + (rnd - 500) * 20), ReverseAttackMultiplier(density))

\* C26: in pulse and drone mode, at the engine's population density, the
\* fade-in ramp of a cycle has ended when the cycle's hold timer fires and
\* issues the fade-out, for every drawn fade-in time, irregularity and hold
\* duration: the voice is held at its full target volume before it fades out.
C26_FadeInEndsBeforeFadeOut ==
    (isRunning /\ mode # "click") =>
        \A r1, r2, r3 \in RandSet :
            FadeInRamp(env.populationDensity, BaseFadeIn(mode, r1), r2) <= HoldDuration(mode, r3)

\* a hold timer that fired in pulse mode on a voice whose gain was still 0: the
\* longest fade-in takes 180 ms at density 0.5, the shortest hold 50 ms
C26_FadeOutBeforeFullVolume ==
    /\ op = "fireHold" /\ isRunning /\ mode = "pulse" /\ env.populationDensity = 500
    /\ \E i \in Voices : gain[i].value = 0 /\ gain[i].target = 0 /\ gain[i].stretch = 500
    /\ FadeInRamp(500, BaseFadeIn("pulse", 999), 999) > 3 * HoldDuration("pulse", 0)


\* Readings that arrive between the setting and the firing of a timer: open
\* country at rest, and a city street at 17.9 m/s
FireEnvs == {WithRain(100, 0), [InitEnv EXCEPT !.populationDensity = 1000, !.speed = 179]}

NextFire ==
    \/ Start("running", NumVoices, 0, 0, 0)
    \/ \E m \in {"pulse", "click"} : SetMode(m)
    \/ \E i \in {0, 3} : FireWait(i, 0)
    \/ \E i \in {0, 3} : FireHold(i)
    \/ \E i \in {0, 3} : FireClick(i)
    \/ \E a \in FireEnvs : SetEnvironmentalData(a, 0, 0, 0)

SpecFire == Init /\ [][NextFire]_vars

CallbackOps == {"fireWait", "fireHold", "fireClick", "fireOrphan"}

\* C28: a scheduler timer callback that fires while the engine is not running
\* returns at its running-flag check: it changes no voice gain, plays no click,
\* creates no node and sets no further timer.
C28_CallbackInertWhenStopped ==
    [][(op' \in CallbackOps /\ ~isRunning) =>
          /\ UNCHANGED <<gain, clickVol, timbre, voiceCount, audioContext>>
          /\ \A i \in Voices : /\ waitT'[i] <= waitT[i]
                               /\ holdT'[i] <= holdT[i]
                               /\ clickT'[i] <= clickT[i]]_vars

\* a hold timer left over from a run fires after stop(): nothing is scheduled
C28_OrphanFiredWhileStopped ==
    /\ op = "fireOrphan" /\ ~isRunning /\ ticks = 2
    /\ \A i \in Voices : Pending(i) = 0


(***************************************************************************)
(* start() and stop() called while a start() awaits the backend            *)
(***************************************************************************)
\* Every node constructor succeeds and every resume() resolves; the backend
\* hands out contexts that are suspended (before a user gesture) or running.
NextOverlap ==
    \/ \E b \in {"suspended", "running"} : Start(b, NumVoices, 0, 0, 0)
    \/ \E c \in BOOLEAN : StartResumed(c, TRUE, NumVoices, 0, 0, 0)
    \/ \E k \in BOOLEAN : FireRetry(k)
    \/ Stop
    \/ \E sc \in {"dreyblatt", "harmonic", "pelog"} : SetScale(sc, 0, 0, 0)

SpecOverlap == Init /\ [][NextOverlap]_vars

\* C29: however start() calls overlap while the backend resumes, once no
\* start() is waiting any more a running engine has one audio context, 8
\* oscillators with their gain nodes and panners, and one scheduler chain per
\* voice.
C29_OneEngineAfterOverlappingStarts ==
    (isRunning /\ awaiting = 0) =>
        /\ voiceCount = NumVoices
        /\ leakedCtx = 0
        /\ \A i \in Voices : waitT[i] = 1

\* the first start() resumed after a second one had built the engine: 16
\* oscillators, two chains per voice, and a context nobody will close
C29_BuiltTwice ==
    /\ op = "startResumed" /\ outcome = "ok" /\ isRunning /\ awaiting = 0
    /\ voiceCount = 2 * NumVoices
    /\ leakedCtx = 1
    /\ \A i \in Voices : waitT[i] = 2


\* C30: after stop() has returned the engine is not running, and the next
\* step leaves it running only if that step is a call of start(); so too for
\* a stop() that arrives while a start() awaits the resume of its context.
C30_StoppedUntilStartCalled ==
    [][/\ op' = "stop" => ~isRunning'
       /\ op = "stop" => (isRunning' => op' = "start")]_vars

\* stop() has returned, finding nothing to stop, while a start() awaits
C30_StopPassedAwaitingStart ==
    /\ op = "stop" /\ ~isRunning
    /\ awaiting = 1 /\ awaitingCur
    /\ audioContext = "suspended"


\* C31: a start() that follows setMode calls made on a stopped engine leaves
\* every voice with exactly one pending outer scheduler timer, 8 in total; and
\* a stop() leaves no outer timer pending.
C31_StoppedSetModeSchedulesNothing ==
    [][/\ (op' = "start" /\ ~isRunning /\ isRunning') =>
              \A i \in Voices : waitT'[i] = 1
       /\ op' = "stop" => \A i \in Voices : waitT'[i] = 0]_vars

\* start() has just run on an engine whose mode was set while it was stopped:
\* two outer timers per voice, none of them left from an earlier run
C31_TwoChainsAfterStoppedSetMode ==
    /\ op = "start" /\ isRunning /\ outcome = "ok"
    /\ \A i \in Voices : waitT[i] = 2 /\ orphanHold[i] = 0 /\ orphanClick[i] = 0


(***************************************************************************)
(* The cycles of a started engine under timer firings and readings         *)
(***************************************************************************)
\* a city reading, and one whose population density is not a number (a
\* density service that answered with something unparsable)
CycleEnvs ==
    {[InitEnv EXCEPT !.populationDensity = 1000, !.speed = 179],
     [InitEnv EXCEPT !.populationDensity = NaN]}

\* start() on the constructed engine, then timers and readings only
NextCycle ==
    \/ Start("running", NumVoices, 0, 0, 0)
    \/ \E i \in Firing : FireWait(i, 0)
    \/ \E i \in Firing : FireHold(i)
    \/ \E a \in CycleEnvs : isRunning /\ SetEnvironmentalData(a, 0, 0, 0)

SpecCycle == Init /\ [][NextCycle]_vars

\* C32: from start() on, under timer firings and environmental updates alone,
\* every voice has exactly one pending scheduler timer at every moment: the
\* outer timer, or the hold timer its firing created.
C32_OneTimerPerVoice ==
    isRunning => \A i \in Voices : waitT[i] + holdT[i] = 1

\* the outer timer of voice 0 fired after a reading without a numeric density:
\* fadeIn threw, no hold timer was set, voice 0 has no timer left
C32_CycleEndedByFadeIn ==
    /\ op = "fireWait" /\ outcome = "threw" /\ isRunning
    /\ waitT[0] = 0 /\ holdT[0] = 0
    /\ \A i \in Voices \ {0} : waitT[i] + holdT[i] = 1


\* the handles in this.sporadicTimers: those of the pending outer timers and
\* those of outer timers that have fired (no callback removes its handle)
RECURSIVE SumOuter(_, _)
SumOuter(w, n) == IF n = 0 THEN 0 ELSE SumOuter(w, n - 1) + w[n - 1]

TrackedHandles == SumOuter(waitT, NumVoices) + stale

\* C33: sporadicTimers never holds more than 8 handles, every handle in it is
\* that of a pending timer, and every pending scheduler timer is in it: no
\* fired handle stays listed and no hold or click timer is pending outside it.
C33_ListIsThePendingTimers ==
    /\ TrackedHandles <= NumVoices
    /\ stale = 0
    /\ \A i \in Voices : holdT[i] = 0 /\ clickT[i] = 0

\* voice 0 has gone through one cycle: the list holds 9 handles, one of them
\* that of the outer timer that fired
C33_NineHandlesListed ==
    /\ op = "fireHold" /\ outcome = "ok" /\ isRunning
    /\ TrackedHandles = NumVoices + 1
    /\ stale = 1
    /\ \A i \in Voices : waitT[i] = 1


(***************************************************************************)
(* The gain a fade starts from                                             *)
(***************************************************************************)
\* the envelopes of two voices with the audio clock, and mode switches
NextEnvelope ==
    \/ Start("running", NumVoices, 0, 0, 0)
    \/ \E m \in {"drone", "pulse"} : SetMode(m)
    \/ \E i \in {0, 3} : FireWait(i, 0)
    \/ \E i \in {0, 3} : FireHold(i)
    \/ \E i \in {0, 3} : RampAdvances(i)
    \/ \E i \in {0, 3} : RampEnds(i)

SpecEnvelope == Init /\ [][NextEnvelope]_vars

\* C34: a fade the scheduler issues for voice i starts from the gain voice i
\* has at that moment: neither the fade-in of an outer timer nor the fade-out
\* of a hold timer changes gain.value at the moment it is issued.
C34_FadeStartsFromCurrentGain ==
    [][\A i \in Voices :
          (\/ op' = "fireWait" /\ waitT'[i] < waitT[i]
           \/ op' = "fireHold" /\ holdT'[i] < holdT[i])
              => gain'[i].value = gain[i].value]_vars

\* the outer timer of voice 0 is due on a running engine while the gain of
\* voice 0 is above 0
C34_FadeInDueAboveZero ==
    /\ isRunning /\ mode # "click"
    /\ waitT[0] > 0 /\ ticks < MaxTicks
    /\ gain[0].value > 0


BellModes == {"drone", "pulse", "bell"}

\* start() of the variant with a backend that is there and running
BellStart ==
    /\ op' = "start"
    /\ outcome' = "ok"
    /\ UNCHANGED <<cfgVars, env, clickVol, holdT, clickT, orphanHold, orphanClick,
                   stale, ticks, awaiting, awaitingCur, leakedCtx,
                   fundamentalFreq, sunElevation, lastHeading>>
    /\ IF isRunning THEN
           UNCHANGED <<isRunning, audioContext, voiceCount, retryT,
                       freq, pan, fx, gain, timbre, waitT>>
       ELSE
           /\ retryT < MaxRetry
           /\ retryT' = retryT + 1
           /\ audioContext' = "running"
           /\ voiceCount' = voiceCount + NumVoices
           /\ freq' = FreshFreq
           /\ pan' = FreshPan
           /\ fx' = FreshFx
           /\ gain' = FreshGain
           /\ timbre' = [i \in Voices |-> TypeAssigned(waveform)]
           /\ isRunning' = TRUE
           /\ waitT' = ScheduleAll(waitT)

\* setMode(m) of the variant: no waveform is applied
BellSetMode(m) ==
    /\ op' = "setMode"
    /\ outcome' = "ok"
    /\ mode' = m
    /\ waitT' = ScheduleAll(NoTimers)
    /\ stale' = 0
    /\ UNCHANGED <<waveform, scale, env, mapVars, voiceVars,
                   holdT, clickT, orphanHold, orphanClick, lifeVars, ticks>>

\* targetVolume of the variant's callback
BellTargetVolume(m, oscIndex) ==
    IF m = "bell"
    THEN LET base == (15 * GainOne) \div 100
         IN IF oscIndex >= 5 THEN (base * 6) \div 10
            ELSE IF oscIndex = 4 THEN (base * 8) \div 10
            ELSE base
    ELSE TargetVolume(m, oscIndex)

\* `clickSource.start(now)` in the bell branch: the callback declares no `now`
\* and neither does an enclosing scope, so evaluating the argument throws a
\* ReferenceError
BellClickThrows == mode = "bell"

\* the outer timer of voice i fires in the variant
BellFireWait(i, rnd) ==
    /\ waitT[i] > 0
    /\ Tick
    /\ op' = "fireWait"
    /\ waitT' = [waitT EXCEPT ![i] = @ - 1]
    /\ stale' = stale + 1
    /\ IF CallbackGuard THEN
           /\ outcome' = "ok"
           /\ UNCHANGED <<gain, holdT>>
       ELSE IF BellClickThrows THEN
           \* the callback ends before fadeIn and before the inner setTimeout
           /\ outcome' = "threw"
           /\ UNCHANGED <<gain, holdT>>
       ELSE
           /\ outcome' = IF FadeInThrows(i) THEN "threw" ELSE "ok"
           /\ gain' = FadeIn(gain, i, BellTargetVolume(mode, i), rnd)
           /\ holdT' = IF FadeInThrows(i) THEN holdT ELSE [holdT EXCEPT ![i] = @ + 1]
    /\ UNCHANGED <<cfgVars, env, mapVars, clickVol, timbre, clickT,
                   orphanHold, orphanClick, lifeVars>>

\* The variant's inner timer, fadeIn, fadeOut and stop() read as those of the
\* first class, statement for statement: FireHold, FireOrphanHold and Stop
\* stand for them.
NextBell ==
    \/ BellStart
    \/ \E k \in BOOLEAN : FireRetry(k)
    \/ Stop
    \/ \E m \in BellModes : BellSetMode(m)
    \/ \E i \in Firing : BellFireWait(i, 0)
    \/ \E i \in Firing : FireHold(i)
    \/ \E i \in Firing : FireOrphanHold(i)

SpecBell == Init /\ [][NextBell]_vars

\* C36: in the variant with a bell mode, every time the outer timer of a voice
\* fires while the engine runs in bell mode, the callback issues the voice's
\* fade-in and sets the hold timer that will issue the fade-out and schedule
\* the next cycle, so that the voice's cycle never ends.
C36_BellCycleGoesOn ==
    [][\A i \in Voices :
          (op' = "fireWait" /\ isRunning /\ mode = "bell" /\ waitT'[i] < waitT[i])
              => /\ holdT'[i] = holdT[i] + 1
                 /\ gain'[i].target > 0]_vars

\* the outer timer of voice 0 has fired in bell mode: no fade-in, no hold
\* timer, no timer left for voice 0
C36_BellStruckOnce ==
    /\ op = "fireWait" /\ outcome = "threw" /\ isRunning /\ mode = "bell"
    /\ waitT[0] = 0 /\ holdT[0] = 0 /\ orphanHold[0] = 0
    /\ gain[0] = FreshGain[0]


(***************************************************************************)
(* The engine variant of src/unnamed/part_002 (waveform palette)           *)
(***************************************************************************)
\* Its lifecycle, configuration, gain nodes and scheduler on the variables
\* above; as for the bell variant, what its updateFrequencies computes is not
\* modelled. start(), stop(), fadeIn, fadeOut and the inner timer read as
\* those modelled above, statement for statement.
PaletteWaveforms == {"sine", "roundpm", "cello", "organ"}

PaletteStart == BellStart

\* the branches of setWaveform that test `waveform`; the later ones test
\* `effectiveWaveform`, which nothing declares
PaletteDeclared == {"roundpm", "cello"}

\* setWaveform(w) throws a ReferenceError on the first oscillator when w gets
\* past the branches of PaletteDeclared; without oscillators the loop is empty
PaletteWaveformThrows(w) == voiceCount > 0 /\ w \notin PaletteDeclared

PaletteApplyWaveform(w) ==
    IF PaletteWaveformThrows(w) THEN timbre
    ELSE [i \in Voices |-> IF i < voiceCount THEN <<"periodicWave", w>> ELSE timbre[i]]

PaletteSetWaveform(w) ==
    /\ op' = "setWaveform"
    /\ outcome' = IF PaletteWaveformThrows(w) THEN "threw" ELSE "ok"
    /\ waveform' = w
    /\ timbre' = PaletteApplyWaveform(w)
    /\ UNCHANGED <<mode, scale, env, mapVars, gain, clickVol, timerVars, lifeVars, ticks>>

\* setMode(m): the mode is assigned, then setWaveform(this.waveform) runs, then
\* the timers are cancelled and set again
PaletteSetMode(m) ==
    /\ op' = "setMode"
    /\ mode' = m
    /\ timbre' = PaletteApplyWaveform(waveform)
    /\ IF PaletteWaveformThrows(waveform) THEN
           /\ outcome' = "threw"
           /\ UNCHANGED <<waitT, stale>>
       ELSE
           /\ outcome' = "ok"
           /\ waitT' = ScheduleAll(NoTimers)
           /\ stale' = 0
    /\ UNCHANGED <<waveform, scale, env, mapVars, gain, clickVol,
                   holdT, clickT, orphanHold, orphanClick, lifeVars, ticks>>

\* targetVolume of the callback; f is the voice's frequency
PaletteTargetVolume(m, oscIndex, f) ==
    IF m = "click"
    THEN (IF f > 2000 THEN (25 * GainOne) \div 100
          ELSE IF f > 200 THEN (35 * GainOne) \div 100
          ELSE (50 * GainOne) \div 100)
    ELSE TargetVolume(m, oscIndex)

\* the outer timer of voice i fires: every mode fades in and holds
PaletteFireWait(i, rnd) ==
    /\ waitT[i] > 0
    /\ Tick
    /\ op' = "fireWait"
    /\ waitT' = [waitT EXCEPT ![i] = @ - 1]
    /\ stale' = stale + 1
    /\ IF CallbackGuard THEN
           /\ outcome' = "ok"
           /\ UNCHANGED <<gain, holdT>>
       ELSE
           /\ outcome' = IF FadeInThrows(i) THEN "threw" ELSE "ok"
           /\ gain' = FadeIn(gain, i, PaletteTargetVolume(mode, i, freq[i]), rnd)
           /\ holdT' = IF FadeInThrows(i) THEN holdT ELSE [holdT EXCEPT ![i] = @ + 1]
    /\ UNCHANGED <<cfgVars, env, mapVars, clickVol, timbre, clickT,
                   orphanHold, orphanClick, lifeVars>>

\* the flutter draw is the middle one (organicVolume = targetVolume)
NextPalette ==
    \/ PaletteStart
    \/ \E k \in BOOLEAN : FireRetry(k)
    \/ Stop
    \/ \E w \in PaletteWaveforms : PaletteSetWaveform(w)
    \/ \E m \in Modes : PaletteSetMode(m)
    \/ \E i \in {0, 3} : PaletteFireWait(i, 500)
    \/ \E i \in {0, 3} : FireHold(i)

SpecPalette == Init /\ [][NextPalette]_vars

C38_SixTonesOffTheMap ==
    (scale \notin Scales \/ env.heading < 0 \/ env.heading >= 3600) =>
        SixOf(ThisGetScaleTones, ScaleRatios(scale))

\* getScaleTones called at heading -10 on the dreyblatt scale: the first of the
\* six values is scaleRatios[-1], undefined
C38_ToneBeforeTheSequence ==
    /\ op = "getScaleTones" /\ scale = "dreyblatt" /\ env.heading = 0 - 100
    /\ ThisGetScaleTones[1] = Undef
    /\ \A k \in 2..6 : ThisGetScaleTones[k] \in Range(ScaleRatios(scale))


\* population densities from open country to city centre, in thousandths
DensitySamples == {0, 100, 250, 299, 300, 500, 750, 999, 1000}

\* C39: the fade-in an outer timer issues at population density d in [0, 1] is
\* stretched by 1 + 2 * (1 - d) for the d current at that moment, and for every
\* drawn base time and irregularity the ramp time is the jittered base time at
\* d = 1, three times that at d = 0, between the two (so never negative) at d,
\* and non-increasing in the density.
C39_AttackStretchedInversely ==
    [][(op' = "fireWait" /\ isRunning /\ env.populationDensity \in 0..1000) =>
          \A i \in Voices : holdT'[i] > holdT[i] =>
              LET d == env.populationDensity
              IN /\ gain'[i].stretch = 3000 - 2 * d
                 /\ \A b, j \in RandSet :
                        LET jittered == MathMax(10000, BaseFadeIn(mode, b) + (j - 500) * 20)
                            ramp(x) == FadeInRamp(x, BaseFadeIn(mode, b), j)
                        IN /\ ramp(1000) = jittered
                           /\ ramp(0) = 3 * jittered
                           /\ jittered <= ramp(d) /\ ramp(d) <= 3 * jittered
                           /\ \A x \in DensitySamples :
                                  /\ x <= d => ramp(x) >= ramp(d)
                                  /\ x >= d => ramp(x) <= ramp(d)]_vars

\* the outer timer of voice 0 fired in pulse mode after a reading from open
\* country (density 0.1): its fade-in is stretched by 2.8
C39_SlowAttackInOpenCountry ==
    /\ op = "fireWait" /\ outcome = "ok" /\ isRunning /\ mode = "pulse"
    /\ env.populationDensity = 100
    /\ gain[0].stretch = 2800 /\ gain[0].target > 0
    /\ FadeInRamp(100, BaseFadeIn("pulse", 0), 500) = 56000

====
